---- MODULE Spec2Model ----
(***************************************************************************)
(* Model of the webcam attendance tool: attendance_system.py (descriptor   *)
(* store, matcher, session tracker, attendance ledger) and                 *)
(* enroll_new_person.py (the guided enrollment).                           *)
(*                                                                         *)
(* Face descriptors are vectors of dimension one, in hundredths of a       *)
(* descriptor-distance unit, so that the Euclidean norm of a difference is *)
(* the absolute value of an integer.  A time of day is a clock reading in  *)
(* ticks of TickSeconds seconds; strftime('%H:%M:%S') is the triple        *)
(* <<HH, MM, SS>>, compared field by field as the fixed-width string is.   *)
(***************************************************************************)
EXTENDS Integers, Sequences, FiniteSets, TLC

VARIABLES
    \* --- file system and wall clock ---
    known_faces,              \* listing of KNOWN_FACES_DIR (<<>>: missing or empty)
    reports_dir,              \* REPORTS_DIR exists
    sheet,                    \* today's Attendance_<date>.xlsx in REPORTS_DIR
    now,                      \* time of day of datetime.now(), in ticks
    sheet_reads,              \* how often update_attendance_sheet went to the file (lines 72-73)
    \* --- one run of attendance_system.py ---
    pc,                       \* position of the process in __main__ / main()
    known_face_encodings,
    known_face_names,
    camera_opened,            \* video_capture.isOpened(): "none" before VideoCapture(0)
    cycle_encodings,          \* face_encodings (line 131) of the latest detection cycle
    detections,               \* how often lines 127-152 ran in this session
    load_notes,               \* "Warning: No face detected" and "Error processing image" lines printed
    session_recognized_names,
    frame_count,
    recent_recognitions,
    \* --- what the process has printed / called ---
    match_count,              \* name -> number of live faces given that name this run
    welcomed,                 \* name -> number of "Welcome, ..." lines of this run
    seen_at,                  \* name -> clock reading of its "Welcome" line of this run
    logged,                   \* name -> number of "Logging new attendance" lines printed
    flushes,                  \* calls of update_attendance_sheet made by this run
    runs,                     \* process runs that have flushed (SpecLedger)
    \* --- the matching step applied to drawn inputs (SpecMatch) ---
    face_encoding,
    tolerance,
    name,
    \* --- two processes inside update_attendance_sheet (SpecRace) ---
    r_pc,
    r_names,
    r_df,
    r_existing,
    r_initial,
    r_out,                    \* the workbook a process is writing with to_excel
    sheet_file,               \* "whole", or "partial"/"mixed" while to_excel writes
    \* --- one run of enroll_new_person.py ---
    e_pc,                     \* position of the enrollment run
    known_faces_dir,          \* KNOWN_FACES_DIR exists
    person_dirs,              \* the person directories under KNOWN_FACES_DIR
    person_name,              \* the name typed at the prompt
    pose_index,               \* index in POSES of the pose of the for loop
    snapshots_taken_for_pose,
    total_snapshots_taken,
    last_capture_time,        \* in half-seconds, like time
    time,                     \* time.time(), in half-seconds
    face_locations,           \* len(face_locations) of the last frame read
    quit_key                  \* a press of 'q' is waiting for cv2.waitKey

vars == <<known_faces, reports_dir, sheet, now, sheet_reads, pc, known_face_encodings,
          known_face_names, camera_opened, load_notes, cycle_encodings,
                   detections, session_recognized_names, frame_count,
          recent_recognitions, match_count, welcomed, seen_at, logged, flushes,
          runs, face_encoding, tolerance, name, r_pc, r_names, r_df, r_existing,
          r_initial, r_out, sheet_file, e_pc, known_faces_dir, person_dirs, person_name,
          pose_index, snapshots_taken_for_pose, total_snapshots_taken,
          last_capture_time, time, face_locations, quit_key>>

fsVars    == <<known_faces, reports_dir, sheet>>
runVars   == <<pc, known_face_encodings, known_face_names, camera_opened, load_notes,
               cycle_encodings, detections,
               session_recognized_names, frame_count, recent_recognitions,
               match_count, welcomed, seen_at, flushes, runs>>
matchVars == <<face_encoding, tolerance, name>>
raceVars  == <<r_pc, r_names, r_df, r_existing, r_initial, r_out, sheet_file>>
enrollVars == <<e_pc, known_faces_dir, person_dirs, person_name, pose_index,
                snapshots_taken_for_pose, total_snapshots_taken,
                last_capture_time, time, face_locations, quit_key>>

----------------------------------------------------------------------------
\* Bounds of the model.
MaxTime   == 2      \* clock readings 0..MaxTime of the day
TickSeconds == 45   \* seconds between two clock readings
MaxRuns   == 2      \* sequential process runs that flush on the day
MaxFrames == 6      \* frames read per run
MaxFaces  == 1      \* faces detected in one frame
MaxRefs   == 3      \* reference descriptors drawn for the matching step

\* Program constants.
FRAME_PROCESSING_INTERVAL == 5
Tolerance == 55     \* tolerance=0.55, in hundredths

Times == 0..MaxTime

Unknown == "Unknown"
Names   == {"alice", "bob", "NA"}

Abs(x) == IF x < 0 THEN -x ELSE x

\* The permutations of a finite set, as sequences.
Perms(S) ==
    {s \in [1..Cardinality(S) -> S] : \A i, j \in 1..Cardinality(S) : s[i] = s[j] => i = j}

----------------------------------------------------------------------------
\* KNOWN_FACES_DIR.  An entry is a sub-directory (one per identity) or a plain
\* file; an image either fails to load, or yields the descriptors of its faces.
Img(encs)  == [ok |-> TRUE, encodings |-> encs]
BadImg     == [ok |-> FALSE, encodings |-> <<>>]
Person(n, imgs) == [name |-> n, isdir |-> TRUE, images |-> imgs]
PlainFile(n)    == [name |-> n, isdir |-> FALSE, images |-> <<>>]

KnownFacesDirs ==
    { <<>>,
      << Person("alice", <<Img(<<0>>), Img(<<>>), Img(<<10, 300>>)>>),
         PlainFile("readme"),
         Person("bob", <<BadImg, Img(<<>>)>>),
         Person("NA", <<Img(<<200>>)>>) >>,
      << Person("bob", <<Img(<<>>), BadImg>>) >> }

\* A bug-shaped variant: every face of an image gives a descriptor.
RECURSIVE PersonEncodingsAllFaces(_)
PersonEncodingsAllFaces(images) ==
    IF images = <<>> THEN <<>>
    ELSE LET image == Head(images)
             rest  == PersonEncodingsAllFaces(Tail(images))
         IN  IF image.ok THEN image.encodings \o rest ELSE rest

\* lines 38-49: the descriptors of one person directory, in listing order.
RECURSIVE PersonEncodings(_)
PersonEncodings(images) ==
    IF images = <<>> THEN <<>>
    ELSE LET image == Head(images)
             rest  == PersonEncodings(Tail(images))
         IN  IF image.ok /\ image.encodings # <<>>
             THEN <<image.encodings[1]>> \o rest
             ELSE rest

\* lines 22-56: load_known_faces, as the pair of parallel lists it returns.
RECURSIVE LoadKnownFaces(_)
LoadKnownFaces(dir) ==
    IF dir = <<>> THEN [encodings |-> <<>>, names |-> <<>>]
    ELSE LET entry == Head(dir)
             rest  == LoadKnownFaces(Tail(dir))
             person_encodings ==
                 IF entry.isdir THEN PersonEncodings(entry.images) ELSE <<>>
         IN  [encodings |-> person_encodings \o rest.encodings,
              names |-> [i \in 1..Len(person_encodings) |-> entry.name] \o rest.names]

\* lines 46-49: the lines printed for the images of one person directory, one
\* for an image without a face and one for an image that fails.
RECURSIVE PersonNotes(_)
PersonNotes(images) ==
    IF images = <<>> THEN 0
    ELSE LET image == Head(images)
         IN  (IF image.ok /\ image.encodings # <<>> THEN 0 ELSE 1)
                + PersonNotes(Tail(images))

\* lines 31-49: the warnings and errors load_known_faces prints about images.
RECURSIVE LoadNotes(_)
LoadNotes(dir) ==
    IF dir = <<>> THEN 0
    ELSE (IF Head(dir).isdir THEN PersonNotes(Head(dir).images) ELSE 0)
            + LoadNotes(Tail(dir))

-----------------------------------------------------------------------------
\* face_recognition.face_distance: the norm of each difference.
FaceDistance(encodings, enc) ==
    [i \in 1..Len(encodings) |-> Abs(encodings[i] - enc)]

\* face_recognition.compare_faces: distance <= tolerance, per reference.
CompareFaces(encodings, enc, tol) ==
    [i \in 1..Len(encodings) |-> FaceDistance(encodings, enc)[i] <= tol]

\* A bug-shaped variant: the last index of the minimum.
ArgMinLast(d) ==
    CHOOSE i \in 1..Len(d) :
        /\ \A j \in 1..Len(d) : d[i] <= d[j]
        /\ \A j \in (i + 1)..Len(d) : d[j] > d[i]

\* numpy argmin: the first index of the minimum.
ArgMin(d) ==
    CHOOSE i \in 1..Len(d) :
        /\ \A j \in 1..Len(d) : d[i] <= d[j]
        /\ \A j \in 1..(i - 1) : d[j] > d[i]

\* A bug-shaped variant of the matching step: the first reference within
\* tolerance instead of the nearest one.
MatchFaceFirstMatch(encodings, names, enc, tol) ==
    LET matches == CompareFaces(encodings, enc, tol)
    IN  IF \E i \in 1..Len(encodings) : matches[i]
        THEN names[CHOOSE i \in 1..Len(encodings) :
                       matches[i] /\ \A j \in 1..(i - 1) : ~matches[j]]
        ELSE Unknown

\* A bug-shaped variant of the matching step: the tolerance test is strict.
MatchFaceStrict(encodings, names, enc, tol) ==
    LET face_distances == FaceDistance(encodings, enc)
    IN  IF Len(face_distances) > 0
        THEN LET best_match_index == ArgMin(face_distances)
             IN  IF face_distances[best_match_index] < tol
                 THEN names[best_match_index]
                 ELSE Unknown
        ELSE Unknown

\* lines 135-142: the name given to one live descriptor.
MatchFace(encodings, names, enc, tol) ==
    LET matches        == CompareFaces(encodings, enc, tol)
        face_distances == FaceDistance(encodings, enc)
    IN  IF Len(face_distances) > 0
        THEN LET best_match_index == ArgMin(face_distances)
             IN  IF matches[best_match_index]
                 THEN names[best_match_index]
                 ELSE Unknown
        ELSE Unknown

----------------------------------------------------------------------------
\* datetime.now().strftime('%H:%M:%S') at clock reading t: <<HH, MM, SS>>.
Strftime(t) ==
    LET s == t * TickSeconds
    IN  <<(s \div 3600) % 24, (s \div 60) % 60, s % 60>>

\* Order of two 'HH:MM:SS' strings: fixed-width fields, compared left to right.
TsLeq(a, b) ==
    \/ a[1] < b[1]
    \/ a[1] = b[1] /\ a[2] < b[2]
    \/ a[1] = b[1] /\ a[2] = b[2] /\ a[3] <= b[3]

\* The float NaN pandas puts in place of a missing value.
NaN == "<NaN>"

\* Cell texts pandas.read_excel takes for a missing value (keep_default_na).
NAValues ==
    {"", "#N/A", "#NA", "<NA>", "N/A", "NA", "NULL", "NaN", "None", "n/a", "nan", "null"}

NoSheet == [exists |-> FALSE, rows |-> <<>>]

\* line 73: pd.read_excel of an existing sheet.
ReadExcel(xlsx) ==
    [i \in 1..Len(xlsx.rows) |->
        [Name |-> IF xlsx.rows[i].Name \in NAValues THEN NaN ELSE xlsx.rows[i].Name,
         Timestamp |-> xlsx.rows[i].Timestamp]]

\* line 91: df.to_excel(excel_path, index=False); NaN is written as an empty cell.
ToExcel(df) ==
    [exists |-> TRUE,
     rows |-> [i \in 1..Len(df) |->
                 [Name |-> IF df[i].Name = NaN THEN "" ELSE df[i].Name,
                  Timestamp |-> df[i].Timestamp]]]

\* lines 72-77: the frame and the names already present.
LoadSheet(xlsx) ==
    IF xlsx.exists
    THEN LET df == ReadExcel(xlsx)
         IN  [df |-> df, existing_names |-> {df[i].Name : i \in 1..Len(df)}]
    ELSE [df |-> <<>>, existing_names |-> {}]

IsSorted(rows) ==
    \A i \in 1..(Len(rows) - 1) : TsLeq(rows[i].Timestamp, rows[i + 1].Timestamp)

\* A bug-shaped variant: the frame is written in concatenation order.
SortValuesNoSort(df) == {df}

\* The orders in which the rows at the indices I of df can be laid out with
\* their timestamps ascending.
RECURSIVE Ascending(_, _)
Ascending(df, I) ==
    IF I = {} THEN {<<>>}
    ELSE UNION {{<<df[i]>> \o rest : rest \in Ascending(df, I \ {i})} :
                  i \in {k \in I : \A j \in I : TsLeq(df[k].Timestamp, df[j].Timestamp)}}

\* line 90: df.sort_values(by="Timestamp"); the default sort is not stable, so
\* rows of equal timestamp come out in any order.
SortValues(df) == Ascending(df, 1..Len(df))

\* lines 80-81: the recognized names that get a row.
NewNames(recognized_names, existing_names) == recognized_names \ existing_names

\* A bug-shaped variant: the rows are stamped '%H:%M', without the seconds.
NewAttendeesNoSeconds(order, reading) ==
    [i \in 1..Len(order) |->
        [Name |-> order[i],
         Timestamp |-> <<Strftime(reading[i])[1], Strftime(reading[i])[2], 0>>]]

\* lines 79-84: one row per new name, in the set's iteration order `order`,
\* stamped with the clock reading taken at its iteration.
NewAttendees(order, reading) ==
    [i \in 1..Len(order) |-> [Name |-> order[i], Timestamp |-> Strftime(reading[i])]]

\* The clock readings of the iterations of lines 80-84 when the loop starts at
\* reading t: the clock may tick once during the loop, after iteration k.
Readings(n, t) ==
    {[i \in 1..n |-> IF i <= k THEN t ELSE t + 1] :
        k \in IF t + 1 <= MaxTime THEN 0..n ELSE {n}}

\* lines 86-92: the sheets that may be on disk after the write.
WriteBack(df, new_attendees) ==
    {ToExcel(sorted) : sorted \in SortValues(df \o new_attendees)}

----------------------------------------------------------------------------
\* lines 69-92: the file is looked for and read, the new names are stamped
\* and, when there is any, the merged and sorted frame is written.
MergeAndWrite(recognized_names) ==
    LET loaded    == LoadSheet(sheet)
        new_names == NewNames(recognized_names, loaded.existing_names)
    IN  /\ sheet_reads' = sheet_reads + 1
        /\ \E order \in Perms(new_names) :
           \E reading \in Readings(Len(order), now) :
              /\ now' = IF Len(order) > 0 THEN reading[Len(order)] ELSE now
              /\ logged' = [n \in Names |->
                              IF n \in new_names THEN logged[n] + 1 ELSE logged[n]]
              /\ IF Len(order) > 0
                 THEN sheet' \in WriteBack(loaded.df, NewAttendees(order, reading))
                 ELSE sheet' = sheet

\* A bug-shaped variant: the early return for an empty set is missing.
UpdateAttendanceSheetNoGuard(recognized_names) == MergeAndWrite(recognized_names)

\* lines 58-92: update_attendance_sheet(recognized_names), run to its end.
UpdateAttendanceSheet(recognized_names) ==
    IF recognized_names = {}
    THEN UNCHANGED <<sheet, now, logged, sheet_reads>>
    ELSE MergeAndWrite(recognized_names)

\* The wall clock advances, or is set back (a correction, the end of daylight
\* saving time).
Tick ==
    /\ now < MaxTime
    /\ now' = now + 1
    /\ UNCHANGED <<fsVars, sheet_reads, runVars, logged, matchVars, raceVars, enrollVars>>

ClockSetBack ==
    /\ \E t \in Times : t < now /\ now' = t
    /\ UNCHANGED <<fsVars, sheet_reads, runVars, logged, matchVars, raceVars, enrollVars>>

----------------------------------------------------------------------------
\* One run of attendance_system.py.

NoWelcomes == [n \in Names |-> 0]
NotSeen    == [n \in Names |-> <<>>]

\* Encodings face_recognition may return for a face in a live frame.
LiveEncodings == {60, 200, 300}

\* The frames the camera may deliver: up to MaxFaces faces, left to right.
Frames == UNION {[1..k -> LiveEncodings] : k \in 0..MaxFaces}

\* A bug-shaped variant: the welcome is printed at every match.
ObserveAlways(st, who, clock) ==
    [st EXCEPT !.names = @ \cup {who},
               !.welcomed[who] = @ + 1,
               !.seen[who] = IF @ = <<>> THEN <<clock>> ELSE @]

\* lines 144-146: the session tracker's step for a matched name.
Observe(st, who, clock) ==
    IF who \notin st.names
    THEN [st EXCEPT !.names = @ \cup {who},
                    !.welcomed[who] = @ + 1,
                    !.seen[who] = <<clock>>]
    ELSE st

\* A bug-shaped variant: the session tracker's step is taken for every face,
\* matched or not.
RECURSIVE ProcessFacesObserveAll(_, _, _)
ProcessFacesObserveAll(face_encodings, st, clock) ==
    IF face_encodings = <<>> THEN st
    ELSE LET who == MatchFace(known_face_encodings, known_face_names,
                              Head(face_encodings), Tolerance)
             st1 == IF who \notin st.names
                    THEN [st EXCEPT !.names = @ \cup {who}]
                    ELSE st
         IN  ProcessFacesObserveAll(Tail(face_encodings),
                                    [st1 EXCEPT !.current = Append(@, who)], clock)

\* lines 133-149: the loop over the faces of one processed frame.
RECURSIVE ProcessFaces(_, _, _)
ProcessFaces(face_encodings, st, clock) ==
    IF face_encodings = <<>> THEN st
    ELSE LET who == MatchFace(known_face_encodings, known_face_names,
                              Head(face_encodings), Tolerance)
             st1 == IF who # Unknown
                    THEN Observe([st EXCEPT !.matched[who] = @ + 1], who, clock)
                    ELSE st
         IN  ProcessFaces(Tail(face_encodings),
                          [st1 EXCEPT !.current = Append(@, who)], clock)

\* A bug-shaped variant: the results of a cycle are added to the cache.
UpdateRecentMerge(recent, current) == recent \o current

\* line 152: recent_recognitions = current_recognitions
UpdateRecent(recent, current) == current

\* A bug-shaped variant: the quit key returns from main at once.
LoopExitReturnOnQuit(cause) == IF cause = "quit" THEN "exited" ELSE "cleanup"

\* lines 119-121 and 174-176: both ways out of the loop are a `break`, which
\* continues at line 178.
LoopExit(cause) == "cleanup"

\* lines 100-102: with no encoding loaded main returns.
AfterLoad(encodings) == IF encodings = <<>> THEN "aborted" ELSE "camera"

\* A bug-shaped variant: the `return` after the webcam error is missing.
AfterOpenNoReturn(opened) == "loop"

\* lines 105-107: with the camera not opened main returns.
AfterOpen(opened) == IF opened THEN "loop" ELSE "aborted"

\* lines 186-189 and 98-102: the process starts, makes REPORTS_DIR and loads
\* the known faces; with none loaded main returns.
StartRun ==
    /\ pc = "idle"
    /\ reports_dir' = TRUE
    /\ LET loaded == LoadKnownFaces(known_faces)
       IN  /\ known_face_encodings' = loaded.encodings
           /\ known_face_names' = loaded.names
           /\ load_notes' = LoadNotes(known_faces)
           /\ pc' = AfterLoad(loaded.encodings)
    /\ UNCHANGED <<known_faces, sheet, now, sheet_reads, camera_opened,
                   cycle_encodings, detections, session_recognized_names,
                   frame_count,
                   recent_recognitions, match_count, welcomed, seen_at, logged,
                   flushes, runs, matchVars, raceVars, enrollVars>>

\* lines 104-115: the camera opens and the session state is set up, or main
\* returns.
OpenCamera ==
    /\ pc = "camera"
    /\ \E opened \in BOOLEAN :
          /\ camera_opened' = IF opened THEN "opened" ELSE "failed"
          /\ pc' = AfterOpen(opened)
    /\ session_recognized_names' = {}
    /\ frame_count' = 0
    /\ recent_recognitions' = <<>>
    /\ cycle_encodings' = <<>>
    /\ detections' = 0
    /\ UNCHANGED <<fsVars, sheet_reads, now, known_face_encodings, known_face_names, load_notes,
                   match_count, welcomed, seen_at, logged, flushes, runs,
                   matchVars, raceVars, enrollVars>>

\* lines 118-121: the frame cannot be read.
FrameReadFail ==
    /\ pc = "loop"
    /\ pc' = LoopExit("read_failed")
    /\ UNCHANGED <<fsVars, sheet_reads, now, known_face_encodings, known_face_names,
                   camera_opened, load_notes, cycle_encodings,
                   detections, session_recognized_names, frame_count,
                   recent_recognitions,
                   match_count, welcomed, seen_at, logged, flushes, runs,
                   matchVars, raceVars, enrollVars>>

\* lines 118-176: one pass of the loop over a frame that was read.
Frame ==
    /\ pc = "loop"
    /\ frame_count < MaxFrames
    /\ IF frame_count % FRAME_PROCESSING_INTERVAL = 0
       THEN \E face_encodings \in Frames :
              LET st == ProcessFaces(face_encodings,
                                     [names |-> session_recognized_names,
                                      matched |-> match_count,
                                      welcomed |-> welcomed,
                                      seen |-> seen_at,
                                      current |-> <<>>],
                                     now)
              IN  /\ session_recognized_names' = st.names
                  /\ match_count' = st.matched
                  /\ welcomed' = st.welcomed
                  /\ seen_at' = st.seen
                  /\ recent_recognitions' =
                        UpdateRecent(recent_recognitions, st.current)
                  /\ cycle_encodings' = face_encodings
                  /\ detections' = detections + 1
       ELSE UNCHANGED <<session_recognized_names, match_count, welcomed, seen_at,
                        recent_recognitions, cycle_encodings, detections>>
    /\ frame_count' = frame_count + 1
    /\ \E key \in {"none", "quit"} :
          pc' = IF key = "quit" THEN LoopExit("quit") ELSE "loop"
    /\ UNCHANGED <<fsVars, sheet_reads, now, known_face_encodings, known_face_names,
                   camera_opened, load_notes, logged, flushes, runs, matchVars, raceVars, enrollVars>>

\* lines 178-184: release the camera, flush the session's names, exit.
Finalize ==
    /\ pc = "cleanup"
    /\ UpdateAttendanceSheet(session_recognized_names)
    /\ flushes' = flushes + 1
    /\ pc' = "exited"
    /\ UNCHANGED <<known_faces, reports_dir, known_face_encodings, known_face_names,
                   camera_opened, load_notes, cycle_encodings,
                   detections, session_recognized_names, frame_count,
                   recent_recognitions,
                   match_count, welcomed, seen_at, runs, matchVars, raceVars, enrollVars>>

\* No enrollment is being run: the variables of enroll_new_person.py are idle.
NoEnroll ==
    /\ e_pc = "none"
    /\ known_faces_dir = TRUE
    /\ person_dirs = <<>>
    /\ person_name = <<>>
    /\ pose_index = 1
    /\ snapshots_taken_for_pose = 0
    /\ total_snapshots_taken = 0
    /\ last_capture_time = 0
    /\ time = 0
    /\ face_locations = 0
    /\ quit_key = FALSE

NoMatchProbe == /\ face_encoding = 0 /\ tolerance = Tolerance /\ name = Unknown

Procs == {1, 2}

NoRace ==
    /\ r_pc = [p \in Procs |-> "done"]
    /\ r_names = [p \in Procs |-> {}]
    /\ r_df = [p \in Procs |-> <<>>]
    /\ r_existing = [p \in Procs |-> {}]
    /\ r_initial = {}
    /\ r_out = [p \in Procs |-> NoSheet]
    /\ sheet_file = "whole"

NoRun ==
    /\ pc = "idle"
    /\ known_face_encodings = <<>>
    /\ known_face_names = <<>>
    /\ camera_opened = "none"
    /\ load_notes = 0
    /\ cycle_encodings = <<>>
    /\ detections = 0
    /\ session_recognized_names = {}
    /\ frame_count = 0
    /\ recent_recognitions = <<>>
    /\ match_count = NoWelcomes
    /\ welcomed = NoWelcomes
    /\ seen_at = NotSeen
    /\ flushes = 0
    /\ runs = 0

\* Sheets an earlier run of the day may have left in REPORTS_DIR.
EarlierSheets ==
    { NoSheet,
      ToExcel(<<[Name |-> "alice", Timestamp |-> Strftime(1)]>>),
      ToExcel(<<[Name |-> "NA", Timestamp |-> Strftime(0)]>>) }

Init ==
    /\ known_faces \in KnownFacesDirs
    /\ reports_dir \in BOOLEAN
    /\ sheet \in EarlierSheets
    /\ sheet.exists => reports_dir
    /\ now \in Times
    /\ logged = NoWelcomes
    /\ sheet_reads = 0
    /\ NoRun
    /\ NoMatchProbe
    /\ NoEnroll
    /\ NoRace

Next ==
    \/ StartRun
    \/ OpenCamera
    \/ FrameReadFail
    \/ Frame
    \/ Finalize
    \/ Tick
    \/ ClockSetBack

Spec == Init /\ [][Next]_vars

----------------------------------------------------------------------------
\* The ledger over the sequential process runs of one day: each run ends in
\* update_attendance_sheet with the names its session recognized.

FlushRun ==
    /\ runs < MaxRuns
    /\ runs' = runs + 1
    /\ \E recognized_names \in SUBSET Names : UpdateAttendanceSheet(recognized_names)
    /\ UNCHANGED <<known_faces, reports_dir, pc, known_face_encodings,
                   known_face_names, camera_opened, load_notes, cycle_encodings,
                   detections, session_recognized_names, frame_count,
                   recent_recognitions, match_count, welcomed, seen_at, flushes,
                   matchVars, raceVars, enrollVars>>

InitLedger ==
    /\ known_faces = <<>>
    /\ reports_dir = TRUE
    /\ sheet = NoSheet
    /\ now \in Times
    /\ logged = NoWelcomes
    /\ sheet_reads = 0
    /\ NoRun
    /\ NoMatchProbe
    /\ NoEnroll
    /\ NoRace

NextLedger ==
    \/ FlushRun
    \/ Tick
    \/ ClockSetBack

SpecLedger == InitLedger /\ [][NextLedger]_vars

----------------------------------------------------------------------------
\* The matching step of lines 135-142 on drawn inputs: a reference set, a live
\* descriptor and a tolerance.

RefPoints   == {0, 120, 135}
RefNames    == {"alice", "bob"}
LivePoints  == {30, 60, 70}
Tolerances  == {55, 60, 70}

MatchStep ==
    /\ pc = "probe"
    /\ name' = MatchFace(known_face_encodings, known_face_names, face_encoding, tolerance)
    /\ pc' = "matched"
    /\ UNCHANGED <<fsVars, sheet_reads, now, known_face_encodings, known_face_names,
                   camera_opened, load_notes, cycle_encodings,
                   detections, session_recognized_names, frame_count,
                   recent_recognitions,
                   match_count, welcomed, seen_at, logged, flushes, runs,
                   face_encoding, tolerance, raceVars, enrollVars>>

InitMatch ==
    /\ known_faces = <<>>
    /\ reports_dir = FALSE
    /\ sheet = NoSheet
    /\ now = 0
    /\ logged = NoWelcomes
    /\ sheet_reads = 0
    /\ pc = "probe"
    /\ \E k \in 0..MaxRefs :
          /\ known_face_encodings \in [1..k -> RefPoints]
          /\ known_face_names \in [1..k -> RefNames]
    /\ camera_opened = "none"
    /\ load_notes = 0
    /\ cycle_encodings = <<>>
    /\ detections = 0
    /\ session_recognized_names = {}
    /\ frame_count = 0
    /\ recent_recognitions = <<>>
    /\ match_count = NoWelcomes
    /\ welcomed = NoWelcomes
    /\ seen_at = NotSeen
    /\ flushes = 0
    /\ runs = 0
    /\ face_encoding \in LivePoints
    /\ tolerance \in Tolerances
    /\ name = Unknown
    /\ NoRace
    /\ NoEnroll

NextMatch == MatchStep

SpecMatch == InitMatch /\ [][NextMatch]_vars

----------------------------------------------------------------------------
\* Two processes inside update_attendance_sheet on the same day's file.  The
\* function takes no lock, so the steps of the two interleave between the read
\* of line 73 and the write of line 91.

RaceNames == {"alice", "bob"}

\* lines 66-77 in process p.  A file that to_excel is still writing is not a
\* workbook: read_excel raises an error that is not FileNotFoundError, and the
\* process dies with it.
RaceRead(p) ==
    /\ r_pc[p] = "start"
    /\ IF r_names[p] = {}
       THEN /\ r_pc' = [r_pc EXCEPT ![p] = "done"]
            /\ UNCHANGED <<r_df, r_existing>>
       ELSE IF sheet_file # "whole"
       THEN /\ r_pc' = [r_pc EXCEPT ![p] = "crashed"]
            /\ UNCHANGED <<r_df, r_existing>>
       ELSE LET loaded == LoadSheet(sheet)
            IN  /\ r_df' = [r_df EXCEPT ![p] = loaded.df]
                /\ r_existing' = [r_existing EXCEPT ![p] = loaded.existing_names]
                /\ r_pc' = [r_pc EXCEPT ![p] = "read"]
    /\ sheet_reads' = IF r_names[p] = {} THEN sheet_reads ELSE sheet_reads + 1
    /\ UNCHANGED <<fsVars, now, runVars, logged, matchVars, r_names, r_initial,
                   r_out, sheet_file, enrollVars>>

\* lines 79-91 in process p, up to the point where to_excel has opened the
\* file for writing, which empties it: the rows are stamped, merged and
\* sorted, and the file is no workbook until the write is over.
RaceWrite(p) ==
    /\ r_pc[p] = "read"
    /\ LET new_names == NewNames(r_names[p], r_existing[p])
       IN  \E order \in Perms(new_names) :
           \E reading \in Readings(Len(order), now) :
              /\ now' = IF Len(order) > 0 THEN reading[Len(order)] ELSE now
              /\ logged' = [n \in Names |->
                              IF n \in new_names THEN logged[n] + 1 ELSE logged[n]]
              /\ IF Len(order) > 0
                 THEN /\ \E out \in WriteBack(r_df[p], NewAttendees(order, reading)) :
                            r_out' = [r_out EXCEPT ![p] = out]
                      /\ sheet_file' = IF \E q \in Procs : r_pc[q] = "writing"
                                          THEN "mixed" ELSE "partial"
                      /\ r_pc' = [r_pc EXCEPT ![p] = "writing"]
                 ELSE /\ r_pc' = [r_pc EXCEPT ![p] = "done"]
                      /\ UNCHANGED <<r_out, sheet_file>>
    /\ UNCHANGED <<known_faces, reports_dir, sheet, sheet_reads, runVars, matchVars, r_names,
                   r_df, r_existing, r_initial, enrollVars>>

\* line 91 in process p: to_excel has written the workbook and closes the
\* file.  Two writes that overlapped leave the bytes of both in the file: the
\* last to close leaves its workbook or a file that is none.
RaceClose(p) ==
    /\ r_pc[p] = "writing"
    /\ r_pc' = [r_pc EXCEPT ![p] = "done"]
    /\ sheet' = r_out[p]
    /\ IF \E q \in Procs \ {p} : r_pc[q] = "writing"
       THEN sheet_file' = "mixed"
       ELSE IF sheet_file = "mixed"
       THEN sheet_file' \in {"whole", "mixed"}
       ELSE sheet_file' = "whole"
    /\ UNCHANGED <<known_faces, reports_dir, now, sheet_reads, runVars, logged, matchVars,
                   r_names, r_df, r_existing, r_initial, r_out, enrollVars>>

InitRace ==
    /\ known_faces = <<>>
    /\ reports_dir = TRUE
    /\ sheet \in {NoSheet, ToExcel(<<[Name |-> "alice", Timestamp |-> Strftime(0)]>>)}
    /\ now \in Times
    /\ logged = NoWelcomes
    /\ sheet_reads = 0
    /\ NoRun
    /\ NoMatchProbe
    /\ NoEnroll
    /\ r_pc = [p \in Procs |-> "start"]
    /\ r_names \in [Procs -> SUBSET RaceNames]
    /\ r_df = [p \in Procs |-> <<>>]
    /\ r_existing = [p \in Procs |-> {}]
    /\ r_initial = {sheet.rows[i].Name : i \in 1..Len(sheet.rows)}
    /\ r_out = [p \in Procs |-> NoSheet]
    /\ sheet_file = "whole"

NextRace ==
    \/ \E p \in Procs : RaceRead(p)
    \/ \E p \in Procs : RaceWrite(p)
    \/ \E p \in Procs : RaceClose(p)

SpecRace == InitRace /\ [][NextRace]_vars

-----------------------------------------------------------------------------
\* enroll_new_person.py: the guided enrollment of one person.
\* A name is the sequence of its characters; the clock of time.time() is in
\* half-seconds, so int(time.time()) is time \div 2.

MaxClock == 52

\* line 62: time.sleep(2.5), in half-seconds.
PoseSleep == 5

\* line 86: the 2.0 s between two snapshots, in half-seconds.
CaptureDelay == 4

\* A loop iteration (frame read, detection, display) takes this long.
FrameTimes == {2, 4}

\* lines 10-16
POSES ==
    << [name |-> "Center",     count |-> 2],
       [name |-> "Look Left",  count |-> 1],
       [name |-> "Look Right", count |-> 1],
       [name |-> "Look Up",    count |-> 1],
       [name |-> "Look Down",  count |-> 1] >>

\* line 25: the characters of r'<>:"/\|?*'.
UnsafeChars == {"<", ">", ":", "\"", "/", "\\", "|", "?", "*"}

\* What the operator may type at the prompt of line 24.
InputNames == { <<>>, <<"a", "/", "b">>, <<"c", "?">>, <<"a", "l">> }

\* line 25, negated: the name is not empty and holds no unsafe character.
ValidName(n) == n # <<>> /\ \A i \in 1..Len(n) : n[i] \notin UnsafeChars

PersonNames == {n \in InputNames : ValidName(n)}

\* What the operator may type at the prompt of line 34.
OverwriteAnswers == {"y", "Y", "n"}

\* line 34: .lower() of the answer.
Lower(answer) == IF answer = "Y" THEN "y" ELSE answer

\* line 87: pose_name.lower().replace(' ', '_')
FileStem(pose_name) ==
    CASE pose_name = "Center"     -> "center"
      [] pose_name = "Look Left"  -> "look_left"
      [] pose_name = "Look Right" -> "look_right"
      [] pose_name = "Look Up"    -> "look_up"
      [] pose_name = "Look Down"  -> "look_down"

\* line 87: the snapshot's file, named by the pose and int(time.time()).
SnapshotPath(pose_name, t) == <<FileStem(pose_name), t \div 2>>

NoPersonDir == [exists |-> FALSE, images |-> {}]

\* A bug-shaped variant: a snapshot is taken whenever some face is detected.
ShouldCaptureAnyFace(faces, t, last) == faces >= 1 /\ t - last >= CaptureDelay

\* lines 81 and 86: exactly one face, and 2.0 s since last_capture_time.
ShouldCapture(faces, t, last) == faces = 1 /\ t - last >= CaptureDelay

\* lines 54 and 108: after the while loop of a pose, the next pose of the for
\* loop, or the completion message after the last one.
AfterPose(i) == IF i < Len(POSES) THEN "awaiting" ELSE "complete"

\* lines 131-135 and 24-47: the script makes KNOWN_FACES_DIR when missing and
\* calls enroll_person_advanced, which asks the name, validates it, asks about
\* an existing person or makes the person's directory, and opens the camera.
EnrollStart ==
    /\ e_pc = "idle"
    /\ known_faces_dir' = TRUE
    /\ \E input_name \in InputNames, overwrite \in OverwriteAnswers, opened \in BOOLEAN :
          /\ person_name' = input_name
          /\ IF ~ValidName(input_name)
                THEN /\ e_pc' = "rejected"
                     /\ UNCHANGED person_dirs
                ELSE IF person_dirs[input_name].exists /\ Lower(overwrite) # "y"
                THEN /\ e_pc' = "rejected"
                     /\ UNCHANGED person_dirs
                ELSE /\ person_dirs' =
                          IF person_dirs[input_name].exists
                             THEN person_dirs
                             ELSE [person_dirs EXCEPT ![input_name] =
                                      [exists |-> TRUE, images |-> {}]]
                     /\ e_pc' = IF opened THEN "awaiting" ELSE "nocamera"
    /\ pose_index' = 1
    /\ total_snapshots_taken' = 0
    /\ UNCHANGED <<fsVars, sheet_reads, now, runVars, logged, matchVars, raceVars,
                   snapshots_taken_for_pose, last_capture_time, time,
                   face_locations, quit_key>>

\* lines 54-64: a pose begins; the counter of the pose is reset, the operator
\* gets 2.5 s to take the pose, and last_capture_time is set to the time after.
AwaitPose ==
    /\ e_pc = "awaiting"
    /\ time + PoseSleep <= MaxClock
    /\ snapshots_taken_for_pose' = 0
    /\ time' = time + PoseSleep
    /\ last_capture_time' = time'
    /\ e_pc' = "capturing"
    /\ UNCHANGED <<fsVars, sheet_reads, now, runVars, logged, matchVars, raceVars,
                   known_faces_dir, person_dirs, person_name, pose_index,
                   total_snapshots_taken, face_locations, quit_key>>

\* lines 66-106: one iteration of the while loop of a pose.  A failed read
\* breaks out of the while loop only; otherwise the frame is a snapshot when
\* ShouldCapture, and then cv2.waitKey is asked for a waiting 'q'.
CaptureFrame ==
    /\ e_pc = "capturing"
    /\ \E ret \in BOOLEAN, faces \in 0..2, dt \in FrameTimes :
          /\ time + dt <= MaxClock
          /\ time' = time + dt
          /\ IF ~ret
                THEN /\ e_pc' = AfterPose(pose_index)
                     /\ pose_index' = IF pose_index < Len(POSES)
                                         THEN pose_index + 1 ELSE pose_index
                     /\ UNCHANGED <<person_dirs, snapshots_taken_for_pose,
                                    total_snapshots_taken, last_capture_time,
                                    face_locations, quit_key>>
                ELSE LET capture == ShouldCapture(faces, time', last_capture_time)
                         taken   == IF capture THEN snapshots_taken_for_pose + 1
                                               ELSE snapshots_taken_for_pose
                         path    == SnapshotPath(POSES[pose_index].name, time')
                     IN  /\ face_locations' = faces
                         /\ person_dirs' =
                              IF capture
                                 THEN [person_dirs EXCEPT ![person_name].images =
                                          @ \cup {path}]
                                 ELSE person_dirs
                         /\ snapshots_taken_for_pose' = taken
                         /\ total_snapshots_taken' =
                              IF capture THEN total_snapshots_taken + 1
                                         ELSE total_snapshots_taken
                         /\ last_capture_time' =
                              IF capture THEN time' ELSE last_capture_time
                         /\ quit_key' = FALSE
                         /\ IF quit_key
                               THEN /\ e_pc' = "cancelled"
                                    /\ UNCHANGED pose_index
                               ELSE IF taken < POSES[pose_index].count
                               THEN /\ e_pc' = "capturing"
                                    /\ UNCHANGED pose_index
                               ELSE /\ e_pc' = AfterPose(pose_index)
                                    /\ pose_index' =
                                         IF pose_index < Len(POSES)
                                            THEN pose_index + 1 ELSE pose_index
    /\ UNCHANGED <<fsVars, sheet_reads, now, runVars, logged, matchVars, raceVars,
                   known_faces_dir, person_name>>

\* The operator presses 'q' in the window; the press waits for the next
\* cv2.waitKey (line 102).
PressQuit ==
    /\ e_pc \in {"awaiting", "capturing"}
    /\ ~quit_key
    /\ quit_key' = TRUE
    /\ UNCHANGED <<fsVars, sheet_reads, now, runVars, logged, matchVars, raceVars, e_pc,
                   known_faces_dir, person_dirs, person_name, pose_index,
                   snapshots_taken_for_pose, total_snapshots_taken,
                   last_capture_time, time, face_locations>>

\* lines 108-129: the completion message and screen, and the cleanup.
ShowCompletion ==
    /\ e_pc = "complete"
    /\ e_pc' = "finished"
    /\ \E ret \in BOOLEAN : quit_key' = IF ret THEN FALSE ELSE quit_key
    /\ UNCHANGED <<fsVars, sheet_reads, now, runVars, logged, matchVars, raceVars,
                   known_faces_dir, person_dirs, person_name, pose_index,
                   snapshots_taken_for_pose, total_snapshots_taken,
                   last_capture_time, time, face_locations>>

\* What KNOWN_FACES_DIR may hold before the run: nothing, or the directory of
\* a person enrolled earlier.
EarlierPersonDirs ==
    { [n \in PersonNames |-> NoPersonDir],
      [n \in PersonNames |->
          IF n = <<"a", "l">>
             THEN [exists |-> TRUE, images |-> {<<"center", 0>>}]
             ELSE NoPersonDir] }

InitEnroll ==
    /\ known_faces = <<>>
    /\ reports_dir = TRUE
    /\ sheet = NoSheet
    /\ now = 0
    /\ logged = NoWelcomes
    /\ sheet_reads = 0
    /\ NoRun
    /\ NoMatchProbe
    /\ NoRace
    /\ e_pc = "idle"
    /\ known_faces_dir \in BOOLEAN
    /\ person_dirs \in EarlierPersonDirs
    /\ known_faces_dir \/ \A n \in PersonNames : ~person_dirs[n].exists
    /\ person_name = <<>>
    /\ pose_index = 1
    /\ snapshots_taken_for_pose = 0
    /\ total_snapshots_taken = 0
    /\ last_capture_time = 0
    /\ time = 0
    /\ face_locations = 0
    /\ quit_key = FALSE

NextEnroll ==
    \/ EnrollStart
    \/ AwaitPose
    \/ CaptureFrame
    \/ PressQuit
    \/ ShowCompletion

SpecEnroll == InitEnroll /\ [][NextEnroll]_vars

-----------------------------------------------------------------------------
\* load_known_faces on directories drawn from a small set: up to two person
\* directories, each with up to MaxImages images of the kinds of ImageKinds.

MaxImages == 3

\* An image with one face, with no face, one that fails, one with two faces.
ImageKinds == {Img(<<0>>), Img(<<>>), BadImg, Img(<<10, 300>>)}

ImageLists == UNION {[1..k -> ImageKinds] : k \in 0..MaxImages}

LoadDirs ==
    {<<Person("carol", imgs)>> : imgs \in ImageLists}
       \cup {<<Person("carol", i1), PlainFile("readme"), Person("alice", i2)>> :
                i1 \in ImageLists, i2 \in ImageLists}

InitLoad ==
    /\ known_faces \in LoadDirs
    /\ reports_dir = FALSE
    /\ sheet = NoSheet
    /\ now = 0
    /\ logged = NoWelcomes
    /\ sheet_reads = 0
    /\ NoRun
    /\ NoMatchProbe
    /\ NoRace
    /\ NoEnroll

NextLoad == StartRun

SpecLoad == InitLoad /\ [][NextLoad]_vars

----------------------------------------------------------------------------
\* The claims.

RowNames(rows) == {rows[i].Name : i \in 1..Len(rows)}

\* C1 (SpecLedger): after any sequence of flushes by the sequential runs of a
\* day, no flushed name accounts for more than one row of the day's record:
\* the record holds at most as many rows as distinct names were logged, and no
\* name was logged twice.
C1_EachNameAtMostOnce ==
    /\ \A n \in Names : logged[n] <= 1
    /\ Len(sheet.rows) <= Cardinality({n \in Names : logged[n] > 0})

\* C2 (SpecRace): for every interleaving of the read and write steps of two
\* concurrent flushes, once both have finished the record holds every name
\* that was in the file before and every name either process flushed.
C2_NoLostUpdate ==
    (\A p \in Procs : r_pc[p] = "done") =>
        (r_initial \cup r_names[1] \cup r_names[2]) \subseteq RowNames(sheet.rows)

\* C3 (Spec): once the loop has been entered, the process has exited only
\* after exactly one call of update_attendance_sheet, made with the session's
\* names (each of them is then in the day's record), no flush is made before
\* the loop has ended, and a process that has left the loop can always go on
\* to its flush.
C3_FlushOnEveryLoopExit ==
    /\ pc = "exited" =>
          /\ flushes = 1
          /\ session_recognized_names \subseteq RowNames(sheet.rows)
    /\ pc # "exited" => flushes = 0
    /\ pc = "cleanup" => ENABLED Finalize

C3_Witness ==
    /\ pc = "exited"
    /\ flushes = 1
    /\ session_recognized_names # {}
    /\ session_recognized_names \subseteq RowNames(sheet.rows)

\* C4 (SpecLedger): a flush never changes or removes a row: every (Name,
\* Timestamp) row of the record before a step is a row of the record after
\* it, and a row is added only under a name the record did not hold.
C4_RowsOnlyAppended ==
    [][/\ \A i \in 1..Len(sheet.rows) :
             \E j \in 1..Len(sheet'.rows) : sheet'.rows[j] = sheet.rows[i]
       /\ Len(sheet'.rows) - Len(sheet.rows) =
             Cardinality(RowNames(sheet'.rows) \ RowNames(sheet.rows))]_vars

\* C5 (SpecLedger): the rows of the persisted record are always in
\* non-decreasing order of their time-of-day strings.
C5_SortedByTimestamp == IsSorted(sheet.rows)

C5_Witness ==
    /\ runs = 2
    /\ Len(sheet.rows) >= 2
    /\ sheet.rows[1].Timestamp # sheet.rows[Len(sheet.rows)].Timestamp
    /\ now = 0
    /\ IsSorted(sheet.rows)

\* C6 as stated (Spec): when the process has exited, the row of every name it
\* logged carries the time of day at which that name was first recognized
\* (its "Welcome" line) in the live loop.
C6_StampedAtFirstRecognition ==
    pc = "exited" =>
        \A n \in Names : logged[n] > 0 =>
            \E i \in 1..Len(sheet.rows) :
                /\ sheet.rows[i].Name = n
                /\ seen_at[n] # <<>>
                /\ sheet.rows[i].Timestamp = Strftime(seen_at[n][1])

\* C6 as amended (Spec): the row of every name the final flush logs carries
\* a clock reading taken during that flush, which is made when the loop has
\* ended, and the flush adds exactly one such row for the name.
C6_StampedAtFlush ==
    [][pc = "cleanup" /\ pc' = "exited" =>
        \A n \in Names : logged'[n] > logged[n] =>
            /\ n \in session_recognized_names
            /\ seen_at[n] # <<>>
            /\ \E i \in 1..Len(sheet'.rows) :
                 /\ sheet'.rows[i].Name = n
                 /\ sheet'.rows[i].Timestamp \in {Strftime(t) : t \in now..now'}
            /\ \A i \in 1..Len(sheet'.rows) :
                 sheet'.rows[i].Name = n =>
                    sheet'.rows[i].Timestamp \in {Strftime(t) : t \in now..now'}]_vars

C6_Witness ==
    /\ pc = "exited"
    /\ logged["alice"] = 1
    /\ seen_at["alice"] = <<0>>
    /\ \E i \in 1..Len(sheet.rows) :
          /\ sheet.rows[i].Name = "alice"
          /\ sheet.rows[i].Timestamp = Strftime(2)

\* The least distance between the live descriptor and a reference.
IsNearest(i) ==
    \A j \in 1..Len(known_face_encodings) :
        Abs(known_face_encodings[i] - face_encoding) <=
            Abs(known_face_encodings[j] - face_encoding)

\* C7 (SpecMatch): the matching step names the owner of a reference at the
\* least distance from the live descriptor when that distance is within the
\* tolerance, and Unknown otherwise, an empty reference set included.
C7_NearestWithinTolerance ==
    pc = "matched" =>
        IF \E i \in 1..Len(known_face_encodings) :
               IsNearest(i) /\ Abs(known_face_encodings[i] - face_encoding) <= tolerance
        THEN \E i \in 1..Len(known_face_encodings) :
               IsNearest(i) /\ name = known_face_names[i]
        ELSE name = Unknown

\* Distances {alice: 0.30, bob: 0.90} at tolerance 0.60 give alice.
C7_Witness ==
    /\ pc = "matched"
    /\ known_face_encodings = <<0, 120>>
    /\ known_face_names = <<"alice", "bob">>
    /\ face_encoding = 30
    /\ tolerance = 60
    /\ name = "alice"

\* C8 (SpecMatch): a live descriptor given an identity at one tolerance is
\* given the same identity at every larger tolerance.
C8_ToleranceMonotone ==
    (pc = "matched" /\ name # Unknown) =>
        \A t2 \in Tolerances : t2 > tolerance =>
            MatchFace(known_face_encodings, known_face_names, face_encoding, t2) = name

\* bob at distance 0.50 is accepted at tolerance 0.55; at 0.70 alice, at
\* distance 0.70 and first in the list, is within tolerance as well.
C8_Witness ==
    /\ pc = "matched"
    /\ known_face_encodings = <<0, 120>>
    /\ known_face_names = <<"alice", "bob">>
    /\ face_encoding = 70
    /\ tolerance = 55
    /\ name = "bob"

\* C9 (SpecMatch): among the references at the same least distance, the one
\* first in the order of the reference lists gives the name.
C9_FirstOfTies ==
    (pc = "matched" /\ name # Unknown) =>
        \E i \in 1..Len(known_face_encodings) :
            /\ IsNearest(i)
            /\ \A j \in 1..(i - 1) : ~IsNearest(j)
            /\ name = known_face_names[i]

\* alice and bob both at distance 0.60, alice first.
C9_Witness ==
    /\ pc = "matched"
    /\ known_face_encodings = <<120, 0>>
    /\ known_face_names = <<"bob", "alice">>
    /\ face_encoding = 60
    /\ tolerance = 60
    /\ name = "bob"

\* C10 (Spec): in a run every name has at most one "Welcome" line, and has one
\* exactly when it is in the session's set, however often it is matched.
C10_OneWelcomePerName ==
    \A n \in Names :
        /\ welcomed[n] <= 1
        /\ welcomed[n] = 1 <=> n \in session_recognized_names
        /\ match_count[n] > 0 <=> n \in session_recognized_names

C10_Witness ==
    /\ match_count["alice"] >= 2
    /\ welcomed["alice"] = 1
    /\ session_recognized_names = {"alice"}

\* C11 (Spec): the session's set never loses a name; a name enters it only in
\* a step that processes a frame in which a face was given that name, the name
\* of a loaded reference; a step prints a "Welcome" only for a name it
\* inserts; and every member is the name of a loaded reference that a live
\* face was matched to.
C11_SessionSetGrowsByMatches ==
    [][/\ session_recognized_names \subseteq session_recognized_names'
       /\ \A n \in session_recognized_names' \ session_recognized_names :
             /\ pc = "loop"
             /\ frame_count % FRAME_PROCESSING_INTERVAL = 0
             /\ n # Unknown
             /\ \E i \in 1..Len(known_face_names) : known_face_names[i] = n
             /\ \E k \in 1..Len(recent_recognitions') : recent_recognitions'[k] = n
       /\ \A n \in Names :
             welcomed'[n] # welcomed[n] =>
                n \in session_recognized_names' \ session_recognized_names
       /\ \A n \in session_recognized_names' :
             /\ \E i \in 1..Len(known_face_names') : known_face_names'[i] = n
             /\ match_count'[n] > 0]_vars

\* alice entered the set at frame 0; the face of frame 5 was Unknown and left
\* the set as it was.
C11_Witness ==
    /\ frame_count = 6
    /\ recent_recognitions = <<Unknown>>
    /\ session_recognized_names = {"alice"}
    /\ welcomed = [n \in Names |-> IF n = "alice" THEN 1 ELSE 0]

\* The startup of the run has failed: no reference descriptor was loaded, or
\* the camera could not be opened.
StartupFatal ==
    /\ pc # "idle"
    /\ known_face_encodings = <<>> \/ camera_opened = "failed"

\* C12 (Spec): a run whose startup has failed is aborted without entering the
\* loop and without a call of update_attendance_sheet (which holds the only
\* read and the only write of the ledger); the step that aborts it and every
\* later step leave the day's sheet, created or not, as it was.
C12_StartupFatalLeavesLedger ==
    [][StartupFatal' =>
         /\ pc' = "aborted"
         /\ flushes' = 0
         /\ frame_count' = 0
         /\ session_recognized_names' = {}
         /\ logged' = logged
         /\ sheet' = sheet]_vars

\* Faces were loaded, the camera did not open, and the day has no sheet.
C12_Witness ==
    /\ pc = "aborted"
    /\ known_face_encodings # <<>>
    /\ camera_opened = "failed"
    /\ flushes = 0
    /\ ~sheet.exists

RECURSIVE SumCounts(_)
\* The number of snapshots the poses of a sequence ask for.
SumCounts(poses) ==
    IF poses = <<>> THEN 0 ELSE Head(poses).count + SumCounts(Tail(poses))

\* C13 (SpecEnroll): an iteration of the capture loop saves a snapshot only
\* for a frame with exactly one face read at least 2.0 s after
\* last_capture_time (the previous snapshot of the pose, or the start of the
\* pose); an iteration with another number of faces, or inside the delay,
\* leaves both counters, last_capture_time and the person directories alone.
C13_CaptureNeedsOneFaceAndDelay ==
    [][/\ person_dirs' # person_dirs /\ e_pc = "capturing" =>
            /\ face_locations' = 1
            /\ time' - last_capture_time >= CaptureDelay
            /\ snapshots_taken_for_pose' = snapshots_taken_for_pose + 1
            /\ total_snapshots_taken' = total_snapshots_taken + 1
       /\ /\ e_pc = "capturing"
          /\ time' # time
          /\ face_locations' # 1 \/ time' - last_capture_time < CaptureDelay
          => /\ person_dirs' = person_dirs
             /\ snapshots_taken_for_pose' = snapshots_taken_for_pose
             /\ total_snapshots_taken' = total_snapshots_taken
             /\ last_capture_time' = last_capture_time]_vars

\* One snapshot of the first pose is saved, and a frame with one face read
\* 1 s later has been skipped.
C13_Witness ==
    /\ e_pc = "capturing"
    /\ pose_index = 1
    /\ snapshots_taken_for_pose = 1
    /\ total_snapshots_taken = 1
    /\ face_locations = 1
    /\ time - last_capture_time = 2
    /\ Cardinality(person_dirs[person_name].images) >= 1

\* C14 (SpecEnroll): the poses are visited in the order of POSES; a pose is
\* left, and the completion reached, only with as many snapshots of the pose
\* as it asks for; at the completion the total is the sum of the counts.
C14_StagesCompleteInOrder ==
    [][/\ pose_index' \in {pose_index, pose_index + 1}
       /\ (pose_index' # pose_index \/ (e_pc' = "complete" /\ e_pc # "complete"))
             => snapshots_taken_for_pose' = POSES[pose_index].count
       /\ e_pc' = "complete" => total_snapshots_taken' = SumCounts(POSES)]_vars

\* C15 (SpecEnroll): once 'q' is pressed, the next step of the workflow ends
\* it as cancelled, no snapshot is saved any more and the completion is never
\* reached; the images saved before stay.
C15_QuitEndsAtOnce ==
    [][/\ quit_key /\ e_pc \in {"awaiting", "capturing"} /\ e_pc' # e_pc
             => e_pc' = "cancelled"
       /\ quit_key /\ e_pc \in {"awaiting", "capturing"}
             => /\ person_dirs' = person_dirs
                /\ total_snapshots_taken' = total_snapshots_taken
                /\ e_pc' # "complete"
       /\ \A n \in PersonNames :
             person_dirs[n].images \subseteq person_dirs'[n].images]_vars

\* C16 (SpecEnroll): a run that ends as rejected (empty or unsafe name, or
\* overwrite declined) has made no directory and touched no image.
C16_RejectedBeforeAnyMutation ==
    [][e_pc' = "rejected" =>
          /\ known_faces_dir' = known_faces_dir
          /\ person_dirs' = person_dirs]_vars

\* An image of a listing that yields a descriptor: it loads and shows a face.
Usable(image) == image.ok /\ Len(image.encodings) >= 1

\* The positions <<entry, image>> of the usable images of a listing.
UsableImages(dir) ==
    {<<e, k>> \in (1..Len(dir)) \X (1..MaxImages + 1) :
        /\ dir[e].isdir
        /\ k <= Len(dir[e].images)
        /\ Usable(dir[e].images[k])}

\* The positions of the images of a listing that are skipped.
SkippedImages(dir) ==
    {<<e, k>> \in (1..Len(dir)) \X (1..MaxImages + 1) :
        /\ dir[e].isdir
        /\ k <= Len(dir[e].images)
        /\ ~Usable(dir[e].images[k])}

C18_NoPartialWriteVisible ==
    /\ sheet_file = "whole"
    /\ \A p \in Procs : r_pc[p] # "crashed"

\* C19 (Spec): the flush of a session that recognized nobody goes through
\* to the exit of the process and leaves the day's file as it was, not
\* created if it was missing and not looked at; nothing is logged.
C19_EmptyFlushIsNoOp ==
    [][flushes' = flushes + 1 /\ session_recognized_names = {} =>
          /\ sheet' = sheet
          /\ sheet_reads' = sheet_reads
          /\ logged' = logged
          /\ now' = now
          /\ pc' = "exited"]_vars

\* A session with frames and no recognition has flushed; the day has no file.
C19_Witness ==
    /\ pc = "exited"
    /\ flushes = 1
    /\ frame_count > 0
    /\ session_recognized_names = {}
    /\ sheet = NoSheet
    /\ sheet_reads = 0

\* C20 (Spec): a pass of the loop runs detection and matching exactly when
\* frame_count is a multiple of FRAME_PROCESSING_INTERVAL, the first pass
\* included; any other pass leaves the cache and the session's set alone; and
\* the cache always holds the names matched for the faces of the latest
\* detection cycle, and nothing else.
C20_DetectionEveryNthFrame ==
    [][/\ frame_count' = frame_count + 1 /\ frame_count % FRAME_PROCESSING_INTERVAL # 0
            => /\ recent_recognitions' = recent_recognitions
               /\ session_recognized_names' = session_recognized_names
               /\ welcomed' = welcomed
               /\ match_count' = match_count
               /\ detections' = detections
       /\ frame_count' = frame_count + 1 /\ frame_count % FRAME_PROCESSING_INTERVAL = 0
            => detections' = detections + 1
       /\ detections' > detections
            => /\ pc = "loop"
               /\ frame_count % FRAME_PROCESSING_INTERVAL = 0
               /\ frame_count' = frame_count + 1
       /\ recent_recognitions' =
             [k \in 1..Len(cycle_encodings') |->
                 MatchFace(known_face_encodings', known_face_names',
                           cycle_encodings'[k], Tolerance)]]_vars

\* Frames 0 to 5 are done: alice was matched in frame 0, and the stranger of
\* frame 5 has replaced her in the cache.
C20_Witness ==
    /\ frame_count = 6
    /\ detections = 2
    /\ cycle_encodings = <<300>>
    /\ recent_recognitions = <<Unknown>>
    /\ match_count["alice"] = 1

====
